---- MODULE Spec2Model ----
(***************************************************************************)
(* The template directive engine and the conversation orchestrator of     *)
(* src/cli/index.js (getPrompt, runCommand, runPrompt, runEveries).        *)
(*                                                                         *)
(* Template source text is a sequence of lexical tokens ({#cmd ...},       *)
(* {/cmd}, {#cmd "input"/}, {name=value}, {name}, literal text), on which  *)
(* the four regular-expression passes of getPrompt are computed.  Resolved *)
(* text (a prompt body, a variable's value) is a sequence of atoms: the    *)
(* one-character atoms " " and "\n", and maximal runs of other characters. *)
(***************************************************************************)
EXTENDS Integers, Sequences, FiniteSets, TLC

(***************************************************************************)
(* Resolved text                                                           *)
(***************************************************************************)
IsSpace(a) == a \in {" ", "\n"}

\* String.prototype.trim().length === 0
IsBlank(s) == \A i \in 1..Len(s) : IsSpace(s[i])

\* adjacent non-space characters are one atom (the representation is canonical)
Canon(s) ==
  LET F[i \in 0..Len(s)] ==
        IF i = 0 THEN <<>>
        ELSE LET p == F[i-1] IN
             IF Len(p) > 0 /\ ~IsSpace(p[Len(p)]) /\ ~IsSpace(s[i])
             THEN [p EXCEPT ![Len(p)] = @ \o s[i]]
             ELSE Append(p, s[i])
  IN F[Len(s)]

\* replace(/c+/g, c)
Collapse(s, c) ==
  LET F[i \in 0..Len(s)] ==
        IF i = 0 THEN <<>>
        ELSE IF s[i] = c /\ i > 1 /\ s[i-1] = c THEN F[i-1]
        ELSE Append(F[i-1], s[i])
  IN F[Len(s)]

\* promptText.replace(/\n+/g, '\n').replace(/ +/g, ' ')
Normalize(s) == Canon(Collapse(Collapse(s, "\n"), " "))

(***************************************************************************)
(* JavaScript values held by the scope: t is the type, s the text that     *)
(* string concatenation gives.                                             *)
(***************************************************************************)
Undefined == [t |-> "undefined", s |-> <<"undefined">>]
Str(text) == [t |-> "string", s |-> Canon(text)]
\* the object {completion: c} that the done callback receives
ResponseObject(c) == [t |-> "object", s |-> <<"[object", " ", "Object]">>, completion |-> c]

\* ToBoolean
Truthy(v) ==
  CASE v.t = "undefined" -> FALSE
    [] v.t = "string"    -> v.s # <<>>
    [] v.t = "number"    -> v.s # <<"0">>
    [] v.t = "boolean"   -> v.s # <<"false">>
    [] OTHER             -> TRUE

\* a || b
OrElse(a, b) == IF Truthy(a) THEN a ELSE b

(***************************************************************************)
(* Template source text                                                    *)
(***************************************************************************)
Tok(k, cmd, var, arg, inp) == [k |-> k, cmd |-> cmd, var |-> var, arg |-> arg, inp |-> inp]

TText(a)            == Tok("text", "", "", a, <<>>)         \* literal characters
TRead(n)            == Tok("read", "", n, "", <<>>)         \* {n}
TWrite(n, v)        == Tok("write", "", n, v, <<>>)         \* {n=v}
TOpen(c, var, p)    == Tok("open", c, var, p, <<>>)         \* {#c}  {#c p}  {#c var=p}
TClose(c)           == Tok("close", c, "", "", <<>>)        \* {/c}
TInline(c, var, in) == Tok("inline", c, var, "", in)        \* {#c "in"/}  {#c var="in"/}
TQ(a)               == Tok("text", "", "q", a, <<>>)        \* literal characters holding a double quote

IsWs(t) == t.k = "text" /\ IsSpace(t.arg)

VarEq(var) == IF var = "" THEN "" ELSE var \o "="

\* the characters of a token sequence
RECURSIVE Render(_)
Render(toks) ==
  IF toks = <<>> THEN <<>>
  ELSE LET t == Head(toks) IN
    (CASE t.k = "text"   -> <<t.arg>>
       [] t.k = "read"   -> <<"{" \o t.var \o "}">>
       [] t.k = "write"  -> <<"{" \o t.var \o "=" \o t.arg \o "}">>
       [] t.k = "open"   -> <<"{#" \o t.cmd \o (IF t.arg = "" THEN "" ELSE " " \o VarEq(t.var) \o t.arg) \o "}">>
       [] t.k = "close"  -> <<"{/" \o t.cmd \o "}">>
       [] t.k = "inline" -> <<"{#" \o t.cmd, " ", VarEq(t.var) \o "\"">> \o Render(t.inp) \o <<"\"/}">>)
    \o Render(Tail(toks))

\* the text of a resolved value, as template source
AsToks(s) == [i \in 1..Len(s) |-> TText(s[i])]

(***************************************************************************)
(* Parsed sequence: strings and directive nodes                            *)
(***************************************************************************)
Node(type, command, var, param, body, value, hasValue, name) ==
  [type |-> type, command |-> command, var |-> var, param |-> param,
   body |-> body, value |-> value, hasValue |-> hasValue, name |-> name]

StringItem(toks) == Node("string", "", "", "", toks, <<>>, FALSE, "")
ErrorItem(name)  == Node("throw", "", "", "", <<>>, <<>>, FALSE, name)

NoMatch == [ok |-> FALSE, j |-> 0, node |-> StringItem(<<>>)]
Match(j, node) == [ok |-> TRUE, j |-> j, node |-> node]

\* RE.block at position i:
\*   {#command[ [var=]param]}\s*body\s*{/\1}   (body lazy, at least one character)
IsOpener(t) == t.k \in {"open", "inline"}

\* the characters of a text as one string
Join(s) ==
  LET F[i \in 0..Len(s)] == IF i = 0 THEN "" ELSE F[i-1] \o s[i]
  IN F[Len(s)]

\* group param: for {#c "in"/} it is the quoted input and the slash
OpenerParam(t) ==
  IF t.k = "open" THEN t.arg
  ELSE "\"" \o Join(Render(t.inp)) \o "\"/"

\* a match found in a text that is n tokens longer
BlockShift(m, n) == IF m.ok THEN Match(m.j - n, m.node) ELSE NoMatch

BlockNode(command, endcmd, var, param, body) ==
  IF command # endcmd THEN ErrorItem("Unexpected command end")
  ELSE Node("block", command, var, param, body, <<>>, FALSE, "")

BlockFrom(toks, i) ==
  IF ~IsOpener(toks[i]) THEN NoMatch
  ELSE
    LET c  == toks[i].cmd
        NS == {k \in i+1..Len(toks) : ~IsWs(toks[k])}
        s  == IF NS = {} THEN Len(toks) + 1 ELSE CHOOSE k \in NS : \A r \in NS : k <= r
        \* the closing tag repeats the opening name (backreference \1)
        J  == {j \in s+1..Len(toks) : toks[j].k = "close" /\ toks[j].cmd = c}
    IN IF J # {} THEN
         LET j == CHOOSE j \in J : \A r \in J : j <= r
             E == {k \in s..j-1 : ~IsWs(toks[k])}
             e == CHOOSE k \in E : \A r \in E : k >= r
         IN Match(j, BlockNode(c, toks[j].cmd, toks[i].var, OpenerParam(toks[i]), SubSeq(toks, s, e)))
       ELSE IF s > i + 1 /\ s <= Len(toks) /\ toks[s].k = "close" /\ toks[s].cmd = c THEN
         Match(s, BlockNode(c, toks[s].cmd, toks[i].var, OpenerParam(toks[i]), <<toks[s-1]>>))
       ELSE NoMatch

\* RE.block at an opening tag whose text is split into the tag and the
\* first characters of the body
BlockSplit(toks, i, opener, rest) ==
  BlockShift(BlockFrom(SubSeq(toks, 1, i-1) \o <<opener>> \o rest \o SubSeq(toks, i+1, Len(toks)), i), Len(rest))

\* the places of the closing braces inside the quoted input of {#c "in"/}
Braces(t) == {b \in 1..Len(t.inp) : t.inp[b].k \in {"read", "write"}}

\* {name} or {name=value} without its closing brace
Unclosed(t) ==
  IF t.k = "read" THEN "{" \o t.var ELSE "{" \o t.var \o "=" \o t.arg

\* param is lazy (.+?): it ends at the first closing brace after the command
\* name.  When the quoted input of {#c "in"/} holds one, param ends inside
\* the input and what follows that brace is the beginning of the body.
BlockAt(toks, i) ==
  IF toks[i].k = "inline" /\ Braces(toks[i]) # {} THEN
    LET t     == toks[i]
        b     == CHOOSE b \in Braces(t) : \A r \in Braces(t) : b <= r
        param == "\"" \o Join(Render(SubSeq(t.inp, 1, b-1))) \o Unclosed(t.inp[b])
        rest  == SubSeq(t.inp, b+1, Len(t.inp)) \o <<TQ("\"/}")>>
    IN BlockSplit(toks, i, TOpen(t.cmd, t.var, param), rest)
  ELSE BlockFrom(toks, i)

\* RE.inline_command at position p:  {#command[\s+[var=]"input"]/?}
\* ("input" is greedy: it runs to the last quote of the line that /?} follows)
InlineAt(toks, p) ==
  LET t == toks[p] IN
  IF t.k = "open" /\ t.arg = "" THEN
    Match(p, Node("command", t.cmd, "", "", <<>>, <<>>, FALSE, ""))
  ELSE IF t.k = "inline" THEN
    LET K == {k \in p..Len(toks) :
                /\ toks[k].k = "inline"
                /\ \A m \in p+1..k-1 : toks[m] # TText("\n")}
        j == CHOOSE k \in K : \A r \in K : k >= r
        u == toks[j]
        input ==
          IF j = p THEN <<TQ("\"")>> \o t.inp \o <<TQ("\"")>>
          ELSE <<TQ("\"")>> \o t.inp \o <<TQ("\"/}")>> \o SubSeq(toks, p+1, j-1)
               \o <<TText("{#" \o u.cmd), TText(" "), TQ(VarEq(u.var) \o "\"")>>
               \o u.inp \o <<TQ("\"")>>
    IN Match(j, Node("command", t.cmd, t.var, "", <<>>, input, TRUE, ""))
  ELSE NoMatch

\* RE.var_write at position p:  {name=value}
WriteAt(toks, p) ==
  IF toks[p].k = "write"
  THEN Match(p, Node("variable_set", "", "", "", <<>>, <<TText(toks[p].arg)>>, TRUE, toks[p].var))
  ELSE NoMatch

\* RE.var_read at position p:  {name}
ReadAt(toks, p) ==
  IF toks[p].k = "read"
  THEN Match(p, Node("variable", "", "", "", <<>>, <<>>, FALSE, toks[p].var))
  ELSE NoMatch

\* the match of a pass's expression at position p
MatchAt(re, toks, p) ==
  CASE re = "block"          -> BlockAt(toks, p)
    [] re = "inline_command" -> InlineAt(toks, p)
    [] re = "var_write"      -> WriteAt(toks, p)
    [] re = "var_read"       -> ReadAt(toks, p)

\* findReplace, inside one string element, from position p on: the text up
\* to the first match, the node of the match, and the same for what follows it
RECURSIVE Segments(_, _, _)

SegmentsAfter(re, toks, p, q, m) ==
  <<StringItem(SubSeq(toks, p, q-1)), m.node>> \o Segments(re, toks, m.j + 1)

SegmentsFrom(re, toks, p, q) == SegmentsAfter(re, toks, p, q, MatchAt(re, toks, q))

SegmentsAt(re, toks, p, Q) ==
  IF Q = {} THEN <<StringItem(SubSeq(toks, p, Len(toks)))>>
  ELSE SegmentsFrom(re, toks, p, CHOOSE q \in Q : \A r \in Q : q <= r)

Segments(re, toks, p) ==
  SegmentsAt(re, toks, p, {q \in p..Len(toks) : MatchAt(re, toks, q).ok})

\* findReplace: every match of a pass inside the string elements becomes a
\* node, the text around the matches stays as strings (empty ones included)
findReplace(re, items) ==
  LET F[i \in 0..Len(items)] ==
        IF i = 0 THEN <<>>
        ELSE IF items[i].type # "string" THEN Append(F[i-1], items[i])
        ELSE IF items[i].body = <<>> THEN Append(F[i-1], items[i])
        ELSE F[i-1] \o Segments(re, items[i].body, 1)
  IN F[Len(items)]

\* the four passes of getPrompt, in their order
Parse(template) ==
  LET blocks   == findReplace("block", <<StringItem(template)>>)
      commands == findReplace("inline_command", blocks)
      writes   == findReplace("var_write", commands)
      reads    == findReplace("var_read", writes)
  IN reads

(***************************************************************************)
(* Files that import can read.  A path is its sequence of components.      *)
(***************************************************************************)
PathStr(c) ==
  LET F[i \in 0..Len(c)] == IF i = 0 THEN "" ELSE F[i-1] \o "/" \o c[i]
  IN F[Len(c)]

\* the template given on the command line
MainPath == <<"a", "A.txt">>

Files ==
  [path : {<<"b", "B.txt">>}, text : {<<TWrite("y", "7"), TInline("import", "", <<TText("C.txt")>>)>>}]
  \cup [path : {<<"a", "C.txt">>}, text : {<<TText("ca")>>}]
  \cup [path : {<<"b", "C.txt">>}, text : {<<TText("cb")>>}]
  \cup [path : {<<"a", "L.txt">>},
         text : {<<TText("l"), TOpen("followup", "", ""),
                   TInline("import", "", <<TText("L.txt")>>), TClose("followup")>>}]

\* the relative paths written in import directives
RelPaths == {<<"C.txt">>, <<"..", "b", "B.txt">>, <<"missing.txt">>}

\* string.split(sep), on the path strings that occur
Split(str) ==
  LET Known == {f.path : f \in Files} \cup {MainPath} \cup RelPaths
      C == {c \in Known : PathStr(c) = "/" \o str \/ PathStr(c) = str}
  IN IF C = {} THEN <<str>> ELSE CHOOSE c \in C : TRUE

\* path.join(dir, rel): concatenates and resolves ".." segments
PathJoin(dir, rel) ==
  LET all == dir \o rel
      F[i \in 0..Len(all)] ==
        IF i = 0 THEN <<>>
        ELSE IF all[i] = ".." /\ Len(F[i-1]) > 0 THEN SubSeq(F[i-1], 1, Len(F[i-1]) - 1)
        ELSE Append(F[i-1], all[i])
  IN F[Len(all)]

\* templatePath.split(sep).slice(0, -1)
DirOf(path) == SubSeq(path, 1, Len(path) - 1)

FileExists(path) == \E f \in Files : f.path = path
ReadFile(path) == (CHOOSE f \in Files : f.path = path).text

(***************************************************************************)
(* Scope and evaluation                                                    *)
(***************************************************************************)
ScopeNames == {"x", "y", "v", "prompt", "templatePath", "response", "result",
               "claude_response", "js_response"}

\* a property that an object literal does not set
Absent == [t |-> "absent", s |-> <<>>]

Thrown(name) ==
  [threw |-> name, body |-> Absent, value |-> Absent, variables |-> <<>>,
   attachments |-> <<>>, every |-> <<>>, followup |-> <<>>, calls |-> <<>>]

NoResult == Thrown("")

\* string.replace(RE.var_read, (_, varname) => variables[varname] || '')
simpleVarReplace(variables, string) ==
  LET F[i \in 0..Len(string)] ==
        IF i = 0 THEN <<>>
        ELSE IF string[i].k = "read"
             THEN F[i-1] \o AsToks(OrElse(variables[string[i].var], Str(<<>>)).s)
             ELSE Append(F[i-1], string[i])
  IN F[Len(string)]

\* JSON.parse(block.value) inside try/catch: a quoted string loses its quotes,
\* anything else is left as it was
JSONparse(node) ==
  LET val == node.value
      n == Len(val)
  IN IF /\ node.hasValue /\ n >= 2
        /\ val[1] = TQ("\"") /\ val[n] = TQ("\"")
        /\ \A i \in 2..n-1 : val[i].var # "q"
     THEN SubSeq(val, 2, n-1)
     ELSE val

\* a call to the backend, and what its done callback has been given
Call(op, kind, idx, body, attachments) ==
  [op |-> op, kind |-> kind, idx |-> idx, body |-> body, attachments |-> attachments,
   delivered |-> "pending"]

\* the done callback of the call has been given a: lines 496-511
Delivered(call, a) ==
  [call EXCEPT !.delivered = IF a.completion = <<>> THEN "none" ELSE "completion"]

\* the completion is ignored
NoCompletionIgnored(a) == FALSE

\* line 501: !a.completion
NoCompletion(a) == a.completion = <<>>

VARIABLE
  oneshot     \* whether the backend completes the one-shot exchanges of the run

\* the exchange of callClaude: the done callback is given a, and the promise
\* of claude.sendMessage is resolved with a
OneShot(call, a) ==
  IF NoCompletion(a)
  THEN [Thrown("exit") EXCEPT !.calls = <<Delivered(call, a)>>]
  ELSE [NoResult EXCEPT !.calls = <<Delivered(call, a)>>, !.value = a]

\* callClaude(prompt): claude.sendMessage(prompt, status({temporary: false}, {clear: true})),
\* whose done callback leaves the process when no completion is delivered
callClaude(prompt) ==
  OneShot(Call("claude.sendMessage", "claude", 0, prompt, <<>>),
          IF oneshot = "completes" THEN ResponseObject(<<"cr">>) ELSE ResponseObject(<<>>))


\* runCommand, claude: lines 785-793
Claude(result) ==
  IF result.threw # "" THEN result
  ELSE [result EXCEPT !.body = Str(result.value.completion), !.value = Absent,
                      !.variables = <<<<"claude_response", result.value>>>>]

Number(n) == [t |-> "number", s |-> <<n>>]
Boolean(b) == [t |-> "boolean", s |-> <<b>>]

\* what the evaluation of the code gives: a value, an exception thrown by
\* eval (the code does not parse) or an exception thrown inside the
\* asynchronous function that holds the code
JsEval(code) ==
  CASE code = "1+1"   -> [threw |-> "", value |-> Number("2")]
    [] code = "0"     -> [threw |-> "", value |-> Number("0")]
    [] code = "false" -> [threw |-> "", value |-> Boolean("false")]
    [] code = "''"    -> [threw |-> "", value |-> Str(<<>>)]
    [] code = "1+"    -> [threw |-> "SyntaxError", value |-> Undefined]
    [] OTHER          -> [threw |-> "rejected", value |-> Undefined]

\* runCommand, js / jsdisplay / jsd: lines 746-763.  eval(EVAL_STR) throws what
\* the parser throws; an exception inside the code rejects a promise that
\* nothing handles, and p, which the command awaits, is never resolved
Js(command, param, r) ==
  IF r.threw = "SyntaxError" THEN Thrown("SyntaxError")
  ELSE IF r.threw # "" THEN Thrown("unsettled")
  ELSE [NoResult EXCEPT !.body = IF command \in {"jsdisplay", "jsd"} THEN r.value ELSE Str(<<>>),
                        !.value = r.value,
                        !.variables = <<<<"js_response", r.value>>>>
                                      \o (IF param # "" THEN <<<<param, r.value>>>> ELSE <<>>)]

runCommand(command, variables, arg, param) ==
  CASE command = "writefile" ->
         IF param = "" THEN Thrown("TypeError")
         ELSE [NoResult EXCEPT !.value = Str(Render(arg)), !.body = Str(<<>>)]
    [] command \in {"js", "jsdisplay", "jsd"} ->
         Js(command, param, JsEval(Join(Render(arg))))
    [] command = "claude" ->
         Claude(callClaude(Canon(Render(arg))))
    [] command = "every" ->
         [NoResult EXCEPT !.every = <<[body |-> arg]>>]
    [] command = "file" ->
         [NoResult EXCEPT !.value = Str(Render(arg)), !.body = Str(<<>>),
                          !.attachments = <<[file_name |-> IF param # "" THEN param ELSE "file-random.txt",
                                             file_type |-> "text/plain",
                                             extracted_content |-> Canon(Render(arg))]>>]
    [] command = "followup" ->
         [NoResult EXCEPT !.followup = <<[body |-> arg]>>]
    [] OTHER ->
         [NoResult EXCEPT !.body = Str(<<command \o "(">> \o Render(arg) \o <<")">>)]

RECURSIVE getPrompt(_, _)

\* what lines 680-707 leave: the command's result, the scope, and the
\* attachments and followups that the block branch has pushed already
Out(result, variables, attachments, followup) ==
  [result |-> result, variables |-> variables, attachments |-> attachments, followup |-> followup]

\* the nested evaluation is given a copy of the scope
CopiedScope(outer, inner) == outer

\* getPrompt(text, variables) is given the caller's scope object itself: what
\* the nested evaluation wrote is in the caller's scope when it returns
SharedScope(outer, inner) == inner

\* lines 690-691: result = ran
Imported(variables, ran) ==
  Out([threw |-> ran.threw, body |-> Str(ran.body), value |-> Absent,
       variables |-> <<>>, attachments |-> ran.attachments,
       every |-> ran.every, followup |-> ran.followup, calls |-> ran.calls],
      SharedScope(variables, ran.variables), <<>>, <<>>)

\* the calls of the nested evaluation came before the calls of the command
After(calls, result) == [result EXCEPT !.calls = calls \o @]

\* lines 701-705: a block's body has been evaluated, its command runs on the result
Nested(block, variables, ran) ==
  IF ran.threw # ""
  THEN Out([Thrown(ran.threw) EXCEPT !.calls = ran.calls], SharedScope(variables, ran.variables), <<>>, <<>>)
  ELSE Out(After(ran.calls, runCommand(block.command, SharedScope(variables, ran.variables),
                                       AsToks(ran.body), block.param)),
           SharedScope(variables, ran.variables), ran.attachments, ran.followup)

\* lines 680-707: the command or block of one node
Dispatch(block, variables) ==
  IF block.type = "command" THEN
    LET value == JSONparse(block) IN
    IF block.command = "import" THEN
      IF ~block.hasValue \/ variables["templatePath"].t # "string"
      THEN Out(Thrown("TypeError"), variables, <<>>, <<>>)
      ELSE
        LET path == PathJoin(DirOf(Split(Join(variables["templatePath"].s))),
                             Split(Join(Render(value))))
        IN IF ~FileExists(path) THEN Out(Thrown("ENOENT"), variables, <<>>, <<>>)
           ELSE Imported(variables, getPrompt(ReadFile(path), variables))
    ELSE
      IF ~block.hasValue THEN Out(Thrown("TypeError"), variables, <<>>, <<>>)
      ELSE LET result == runCommand(block.command, variables, simpleVarReplace(variables, value), "")
           IN Out(IF block.var # "" THEN [result EXCEPT !.body = Str(<<>>)] ELSE result,
                  variables, <<>>, <<>>)
  ELSE IF block.type = "block" THEN
    IF block.command \in {"followup", "every"} THEN
      Out(runCommand(block.command, variables, block.body, block.param), variables, <<>>, <<>>)
    ELSE
      Nested(block, variables, getPrompt(block.body, variables))
  ELSE Out(NoResult, variables, <<>>, <<>>)

\* the items go to the front of the array (unshift instead of push)
PushFront(array, items) == items \o array

\* array.push(...items)
Push(array, items) == array \o items

\* Object.assign(variables, result.variables)
Assign(variables, pairs) ==
  LET F[i \in 0..Len(pairs)] ==
        IF i = 0 THEN variables ELSE [F[i-1] EXCEPT ![pairs[i][1]] = pairs[i][2]]
  IN F[Len(pairs)]

\* lines 712-728: the result of a node's command is merged into the outcome
Merge(block, acc, promptText, d) ==
  IF d.result.threw # ""
  THEN [acc EXCEPT !.threw = d.result.threw, !.variables = d.variables, !.calls = @ \o d.result.calls]
  ELSE
    LET body  == IF d.result.body = Absent THEN Str(<<>>) ELSE d.result.body
        value == IF d.result.value = Absent THEN Undefined ELSE d.result.value
        vars2 == [d.variables EXCEPT !["response"] = OrElse(value, body),
                                     !["result"] = OrElse(value, body)]
        vars3 == Assign(vars2, d.result.variables)
        vars4 == IF block.var # "" THEN [vars3 EXCEPT ![block.var] = vars3["response"]] ELSE vars3
    IN [threw |-> "",
        promptText |-> promptText \o body.s,
        variables |-> vars4,
        attachments |-> Push(Push(acc.attachments, d.attachments), d.result.attachments),
        every |-> Push(acc.every, d.result.every),
        followup |-> Push(Push(acc.followup, d.followup), d.result.followup),
        calls |-> acc.calls \o d.result.calls]

\* lines 668-729: one element of the parsed sequence
LiteralVerbatim(text) == text

\* what a literal adds to promptText: a literal that is empty or blank adds a
\* newline (line 670)
Literal(text) == IF IsBlank(text) THEN <<"\n">> ELSE text

Step(block, acc) ==
  IF acc.threw # "" THEN acc
  ELSE IF block.type = "string" THEN
    [acc EXCEPT !.promptText = @ \o Literal(Render(block.body))]
  ELSE
    Merge(block, acc,
          IF block.type = "variable"
          THEN acc.promptText \o acc.variables[block.name].s
          ELSE acc.promptText,
          Dispatch(block,
                   IF block.type = "variable_set"
                   THEN [acc.variables EXCEPT ![block.name] = Str(Render(block.value))]
                   ELSE acc.variables))

\* getPrompt rejects
Failed(name, variables, calls) ==
  [threw |-> name, body |-> <<>>, attachments |-> <<>>, followup |-> <<>>,
   variables |-> variables, every |-> <<>>, calls |-> calls]

\* lines 730-731
Returned(end) ==
  IF end.threw # "" THEN Failed(end.threw, end.variables, end.calls)
  ELSE [threw |-> "", body |-> Normalize(end.promptText), attachments |-> end.attachments,
        followup |-> end.followup, variables |-> end.variables, every |-> end.every,
        calls |-> end.calls]

\* lines 663-731: the walk over the parsed sequence
\* the scope with every write of the sequence applied
FinalScope(out, variables) ==
  LET F[k \in 0..Len(out)] ==
        IF k = 0 THEN variables
        ELSE IF out[k].type = "variable_set"
             THEN [F[k-1] EXCEPT ![out[k].name] = Str(Render(out[k].value))]
             ELSE F[k-1]
  IN F[Len(out)]

\* the scope with which the walk begins: the scope that getPrompt was given;
\* the write pass has built nodes and assigned nothing (lines 650-656)
WalkScope(out, variables) == variables

Evaluate(out, variables) ==
  IF \E k \in 1..Len(out) : out[k].type = "throw"
  THEN Failed((CHOOSE b \in {out[k] : k \in 1..Len(out)} : b.type = "throw").name, variables, <<>>)
  ELSE
    LET F[k \in 0..Len(out)] ==
          IF k = 0
          THEN [threw |-> "", promptText |-> <<>>, variables |-> WalkScope(out, variables),
                attachments |-> <<>>, every |-> <<>>, followup |-> <<>>, calls |-> <<>>]
          ELSE Step(out[k], F[k-1])
    IN Returned(F[Len(out)])

getPrompt(template, variables) == Evaluate(Parse(template), variables)

\* the scope that template() builds: {...PROMPTINPUT, prompt: message, templatePath}
InitialScope(message) ==
  [n \in ScopeNames |->
     CASE n = "prompt" -> Str(message)
       [] n = "templatePath" -> Str(<<PathStr(MainPath)>>)
       [] OTHER -> Undefined]

(***************************************************************************)
(* Templates the runs are given: up to MaxParts directives in a row.       *)
(***************************************************************************)
MaxParts == 2
MaxQueueParts == 4
MaxDeferParts == 3
MaxCommandParts == 2
MaxScopeParts == 3
MaxGrowParts == 3
MaxInteractiveParts == 2

Block(c, var, p, body) == <<TOpen(c, var, p)>> \o body \o <<TClose(c)>>

Frag(name) ==
  CASE name = "a"    -> <<TText("a")>>
    [] name = "sp"   -> <<TText(" ")>>
    [] name = "wx1"  -> <<TWrite("x", "1")>>
    [] name = "wx2"  -> <<TWrite("x", "2")>>
    [] name = "rx"   -> <<TRead("x")>>
    [] name = "ry"   -> <<TRead("y")>>
    [] name = "fa"   -> Block("followup", "", "", <<TText("fa")>>)
    [] name = "fb"   -> Block("followup", "", "", <<TText("fb")>>)
    [] name = "frx"  -> Block("followup", "", "", <<TText("f"), TRead("x")>>)
    [] name = "fin"  -> <<TInline("followup", "", <<TText("f"), TRead("x")>>), TText("\n")>>
    [] name = "ea"   -> Block("every", "", "", <<TText("ea")>>)
    [] name = "eb"   -> Block("every", "", "", <<TText("eb")>>)
    [] name = "erx"  -> Block("every", "", "", <<TText("e"), TRead("x")>>)
    [] name = "ew"   -> Block("every", "", "", <<TWrite("x", "1")>>)
    [] name = "ff"   -> Block("followup", "", "", <<TText("ff"), TInline("followup", "", <<TText("fg")>>)>>)
    [] name = "fe"   -> Block("followup", "", "", <<TText("fe"), TInline("every", "", <<TText("ee")>>)>>)
    [] name = "fw"   -> Block("followup", "", "", <<TWrite("x", "4")>>)
    [] name = "bw"   -> Block("foo", "", "", <<TWrite("x", "3")>>)
    [] name = "be"   -> Block("foo", "", "", Block("every", "", "", <<TText("en")>>))
    [] name = "bf"   -> Block("foo", "", "", Block("followup", "", "", <<TText("fn")>>))
    [] name = "batt" -> Block("foo", "", "", Block("file", "", "n", <<TText("c")>>))
    [] name = "ok"   -> Block("foo", "", "", <<TText("x")>>)
    [] name = "okp"  -> Block("foo", "", "p", <<TText("x")>>)
    [] name = "mis"  -> <<TOpen("foo", "", ""), TText("x"), TClose("bar")>>
    [] name = "misp" -> <<TOpen("foo", "", "p"), TText("x"), TClose("bar")>>
    [] name = "imp"  -> <<TInline("import", "", <<TText("../b/B.txt")>>), TText("\n")>>
    [] name = "impc" -> <<TInline("import", "", <<TText("C.txt")>>), TText("\n")>>
    [] name = "impl" -> <<TInline("import", "", <<TText("L.txt")>>), TText("\n")>>
    [] name = "cl"   -> <<TInline("claude", "", <<TText("q")>>), TText("\n")>>
    [] name = "clv"  -> <<TInline("claude", "v", <<TText("q")>>), TText("\n")>>
    [] name = "ui"   -> <<TInline("foo", "", <<TText("in")>>), TText("\n")>>
    [] name = "uv"   -> <<TInline("foo", "v", <<TText("in")>>), TText("\n")>>
    [] name = "un"   -> <<TOpen("foo", "", ""), TText("\n")>>
    [] name = "bv"   -> Block("foo", "v", "p", <<TText("x")>>)
    [] name = "js2"  -> <<TInline("js", "", <<TText("1+1")>>), TText("\n")>>
    [] name = "jsv"  -> <<TInline("js", "v", <<TText("1+1")>>), TText("\n")>>
    [] name = "jsd2" -> <<TInline("jsdisplay", "", <<TText("1+1")>>), TText("\n")>>
    [] name = "js0"  -> <<TInline("js", "", <<TText("0")>>), TText("\n")>>
    [] name = "jsf"  -> <<TInline("js", "", <<TText("false")>>), TText("\n")>>
    [] name = "jse"  -> <<TInline("js", "", <<TText("''")>>), TText("\n")>>
    [] name = "jst"  -> <<TInline("js", "", <<TText("null.x")>>), TText("\n")>>
    [] name = "jss"  -> <<TInline("js", "", <<TText("1+")>>), TText("\n")>>
    [] name = "fun"  -> Block("followup", "", "", <<TOpen("foo", "", "")>>)

FragNames == {"a", "sp", "wx1", "wx2", "rx", "ry", "fa", "fb", "frx", "fin", "ea", "eb", "erx", "ew",
              "ff", "fe", "fw", "bw", "be", "bf", "batt", "ok", "okp", "mis", "misp", "imp", "impc"}

\* the directives of the runs that exercise the two queues
QueueFragNames == {"a", "fa", "fb", "ea", "eb", "ew"}

\* the directives of the runs that write a variable around a deferred read of it
DeferFragNames == {"a", "wx1", "wx2", "frx", "fin", "erx"}

\* the directives of the runs that dispatch commands
CommandFragNames == {"a", "cl", "clv", "ui", "uv", "un", "bv", "js2", "jsv", "jsd2", "js0", "jsf",
                     "jse", "jst", "jss", "fun", "impl", "mis"}

\* the directives of the runs that write and read a variable in the template itself
ScopeFragNames == {"wx1", "wx2", "rx"}

\* the directives of the runs whose followups queue every-items
GrowFragNames == {"ea", "fa", "fe"}

\* the directives of the templates run from the interactive loop
InteractiveFragNames == {"ea", "fa"}

\* the directives that make a one-shot exchange
ClaudeFragNames == {"cl", "clv"}

SeqsUpTo(S, n) == UNION {[1..k -> S] : k \in 0..n}

\* the templates of the runs: any directives, text followed by queue
\* directives, and deferred reads
PartLists ==
  SeqsUpTo(FragNames, MaxParts)
  \cup {<<"a">> \o s : s \in SeqsUpTo(QueueFragNames, MaxQueueParts - 1)}
  \cup SeqsUpTo(DeferFragNames, MaxDeferParts)
  \cup SeqsUpTo(CommandFragNames, MaxCommandParts)
  \cup SeqsUpTo(ScopeFragNames, MaxScopeParts)
  \cup {<<"a">> \o s : s \in SeqsUpTo(GrowFragNames, MaxGrowParts)}

\* the templates run from the interactive loop: text, then every blocks and followups
InteractiveLists == {<<"a">> \o s : s \in SeqsUpTo(InteractiveFragNames, MaxInteractiveParts)}

TemplateOf(ps) ==
  LET F[i \in 0..Len(ps)] == IF i = 0 THEN <<>> ELSE F[i-1] \o Frag(ps[i])
  IN F[Len(ps)]

(***************************************************************************)
(* The run: template() and runPrompt()                                     *)
(***************************************************************************)
VARIABLES
  parts,      \* the directives of the template file
  mode,       \* how main was started: with a message (cli) or at the terminal (interactive)
  selectedConversation,  \* the conversation of the interactive loop
  pc,         \* where the run is
  prompt,     \* the prompt object of runPrompt
  convo,      \* runPrompt's conversation handle
  ready,      \* claude.ready
  i,          \* position of the followup loop in prompt.followup
  j,          \* position of runEveries in prompt.every
  network,    \* the calls made to the backend, in order
  inflight,   \* the sends whose done callback has not run
  error       \* the exception that ended the run

vars == <<parts, mode, selectedConversation, pc, prompt, convo, ready, i, j, network, inflight, error, oneshot>>

\* the calls a run makes before the model stops following it
MaxCalls == 10

\* the message given on the command line
Message == <<"hi">>

\* an array is truthy, empty or not
ArrayTruthy(array) == TRUE

\* body?.length, the trim forgotten
HasTextUntrimmed(body) == body # <<>>

\* body?.trim()?.length
HasText(body) == ~IsBlank(body)

\* line 807: nothing to run
EarlyReturn(p) == ~(HasText(p.body) \/ ArrayTruthy(p.every) \/ ArrayTruthy(p.followup))

\* the loop stops one item early
LoopEndedEarly(k, array) == k >= Len(array)

\* for (let item of array): the iterator is exhausted at position k
LoopEnded(k, array) == k > Len(array)

IsSend(c) == c.op \in {"startConversation", "sendMessage"}

\* the completion of the n-th call
Completion(n) == <<"r" \o ToString(n)>>

\* for (let i of prompt.followup), line 831: the iterator moves to the next item
Advance(k) == k + 1

\* the send is not awaited
ResumedAtOnce(pending) == TRUE

\* await new Promise(r => ... done(a) { r(a) } ...): the caller goes on when
\* the done callback of its send has run
Resumed(pending) == pending = {}

Init ==
  /\ parts \in PartLists
  /\ mode \in {"cli"} \cup (IF parts \in InteractiveLists THEN {"interactive"} ELSE {})
  /\ selectedConversation \in {"undefined"} \cup (IF mode = "interactive" THEN {"selected"} ELSE {})
  /\ oneshot \in {"completes"}
                 \cup (IF \E k \in 1..Len(parts) : parts[k] \in ClaudeFragNames THEN {"fails"} ELSE {})
  /\ pc = "template"
  /\ prompt = [body |-> <<>>, attachments |-> <<>>, followup |-> <<>>, every |-> <<>>,
               variables |-> InitialScope(Message), conversation |-> "undefined",
               dontRespond |-> FALSE]
  /\ convo = "undefined"
  /\ ready = TRUE
  /\ i = 0
  /\ j = 0
  /\ network = <<>>
  /\ inflight = {}
  /\ error = ""

\* where the run is when it has ended
Ended == {"done", "threw", "exited", "crashed", "hung"}

\* an evaluation did not return: the process was left in a done callback
\* (EXIT(1)), a promise of the js command was rejected and nothing handles
\* it (the process is ended or getPrompt never settles, by the version of
\* the runtime), or an exception was thrown
Throw(name) ==
  CASE name = "exit"      -> pc' = "exited" /\ UNCHANGED error
    [] name = "unsettled" -> pc' \in {"crashed", "hung"} /\ UNCHANGED error
    [] OTHER              -> pc' = "threw" /\ error' = name

\* the one-shot exchanges of an evaluation have been made
Called(calls) == network' = network \o calls

\* lines 545-551: the evaluated template becomes the prompt that runPrompt is given
Prompted(r) ==
  /\ Called(r.calls)
  /\ IF r.threw # ""
     THEN /\ Throw(r.threw)
          /\ prompt' = [prompt EXCEPT !.variables = r.variables]
     ELSE /\ pc' = "runPrompt"
          /\ prompt' = [prompt EXCEPT !.body = r.body, !.attachments = r.attachments,
                                       !.followup = r.followup, !.every = r.every,
                                       !.variables = r.variables]
          /\ UNCHANGED error

\* template(): lines 539-551
Template ==
  /\ pc = "template"
  /\ Prompted(getPrompt(TemplateOf(parts), InitialScope(Message)))
  /\ UNCHANGED <<parts, mode, selectedConversation, convo, ready, i, j, inflight, oneshot>>

\* runPrompt: lines 798-829, up to the first round trip
RunPrompt ==
  /\ pc = "runPrompt"
  /\ IF EarlyReturn(prompt)
     THEN \* runPrompt returns undefined and template() reads result.attachments
          /\ Throw("TypeError")
          /\ UNCHANGED <<prompt, ready, i, j, network, inflight>>
     ELSE
       LET net0 == IF ready THEN network ELSE Append(network, Call("init", "", 0, <<>>, <<>>)) IN
       /\ ready' = TRUE
       /\ pc' = "everies"
       /\ i' = 0
       /\ j' = 1
       /\ UNCHANGED error
       /\ IF prompt.dontRespond
          THEN /\ prompt' = [prompt EXCEPT !.variables["response"] = Str(prompt.body),
                                            !.variables["claude_response"] = ResponseObject(prompt.body),
                                            !.conversation = "{}"]
               /\ network' = net0
               /\ UNCHANGED inflight
          ELSE IF HasText(prompt.body)
          THEN /\ network' = Append(net0, Call("startConversation", "initial", 0, prompt.body, prompt.attachments))
               /\ inflight' = inflight \cup {Len(net0) + 1}
               /\ UNCHANGED prompt
          ELSE /\ network' = net0
               /\ UNCHANGED <<prompt, inflight>>
  /\ UNCHANGED <<parts, mode, selectedConversation, convo, oneshot>>

\* convo.sendMessage(body, status({attachments, done}))
SendMessage(calls, kind, idx, body, attachments) ==
  /\ network' = Append(network \o calls, Call("sendMessage", kind, idx, body, attachments))
  /\ inflight' = inflight \cup {Len(network) + Len(calls) + 1}

\* lines 853-862: an every-item has been evaluated
EveryItem(thing) ==
  /\ prompt' = [prompt EXCEPT !.variables = thing.variables]
  /\ IF thing.threw # ""
     THEN Throw(thing.threw) /\ Called(thing.calls) /\ UNCHANGED <<i, j, inflight>>
     ELSE IF ~HasText(thing.body)
     THEN j' = j + 1 /\ Called(thing.calls) /\ UNCHANGED <<pc, i, inflight, error>>
     ELSE IF convo = "undefined"
     THEN Throw("TypeError") /\ Called(thing.calls) /\ UNCHANGED <<i, j, inflight>>
     ELSE /\ SendMessage(thing.calls, "every", j, thing.body, thing.attachments)
          /\ j' = j + 1
          /\ UNCHANGED <<pc, i, error>>

\* runEveries: lines 851-864, one iteration
RunEveries ==
  /\ pc \in {"everies", "drain"}
  /\ Resumed(inflight)
  /\ IF LoopEnded(j, prompt.every)
     THEN /\ IF pc = "drain"
             THEN pc' = "prompting" /\ UNCHANGED i
             ELSE pc' = "followups" /\ i' = Advance(i)
          /\ UNCHANGED <<prompt, j, network, inflight, error>>
     ELSE
       /\ Len(network) < MaxCalls
       /\ EveryItem(getPrompt(prompt.every[j].body, prompt.variables))
  /\ UNCHANGED <<parts, mode, selectedConversation, convo, ready, oneshot>>

\* the every-items of the followup are not kept
EveryDropped(every, followup) == every

\* prompt.every.push(...followup.every): line 834
EveryQueued(every, followup) == Push(every, followup.every)

\* lines 832-846: a followup item has been evaluated
FollowupItem(followup) ==
  IF followup.threw # ""
  THEN /\ Throw(followup.threw)
       /\ Called(followup.calls)
       /\ prompt' = [prompt EXCEPT !.variables = followup.variables]
       /\ UNCHANGED <<i, j, inflight>>
  ELSE
    /\ prompt' = [prompt EXCEPT !.variables = followup.variables,
                                 !.followup = Push(@, followup.followup),
                                 !.every = EveryQueued(@, followup)]
    /\ IF ~HasText(followup.body)
       THEN i' = Advance(i) /\ Called(followup.calls) /\ UNCHANGED <<pc, j, inflight, error>>
       ELSE IF convo = "undefined"
       THEN Throw("TypeError") /\ Called(followup.calls) /\ UNCHANGED <<i, j, inflight>>
       ELSE /\ SendMessage(followup.calls, "followup", i, followup.body, followup.attachments)
            /\ pc' = "everies"
            /\ j' = 1
            /\ UNCHANGED <<i, error>>

\* runPrompt: lines 831-849, one iteration of the followup loop
Followups ==
  /\ pc = "followups"
  /\ Resumed(inflight)
  /\ IF LoopEnded(i, prompt.followup)
     THEN /\ pc' = "returned"
          /\ UNCHANGED <<prompt, i, j, network, inflight, error>>
     ELSE
       /\ Len(network) < MaxCalls
       /\ FollowupItem(getPrompt(prompt.followup[i].body, prompt.variables))
  /\ UNCHANGED <<parts, mode, selectedConversation, convo, ready, oneshot>>

\* status().done: lines 496-511, called by the backend once for a send
Done ==
  \E n \in inflight : \E a \in {ResponseObject(Completion(n)), ResponseObject(<<>>)} :
    /\ pc \notin Ended
    /\ inflight' = inflight \ {n}
    /\ network' = [network EXCEPT ![n] = Delivered(@, a)]
    /\ IF NoCompletion(a)
       THEN /\ pc' = "exited"
            /\ UNCHANGED <<prompt, convo>>
       ELSE /\ UNCHANGED pc
            /\ IF network[n].kind = "main"
               THEN UNCHANGED <<prompt, convo>>
               ELSE IF network[n].kind = "initial"
               THEN /\ prompt' = [prompt EXCEPT !.variables["claude_response"] = a,
                                                 !.variables["response"] = Str(a.completion),
                                                 !.conversation = "conversation"]
                    /\ convo' = "conversation"
               ELSE /\ prompt' = [prompt EXCEPT !.variables["claude_response"] = a]
                    /\ UNCHANGED convo
    /\ UNCHANGED <<parts, mode, selectedConversation, ready, i, j, error, oneshot>>

\* runPrompt returns, template() returns, main exits: lines 849, 552-557, 163
Finish ==
  /\ pc = "returned"
  /\ mode = "cli"
  /\ pc' = "done"
  /\ UNCHANGED <<parts, mode, selectedConversation, prompt, convo, ready, i, j, network, inflight, error, oneshot>>

\* the interactive loop of main, lines 343-368: template() has returned
\* res = [result.body, out, result.conversation, result.runEveries]
MainLoop ==
  /\ pc = "returned"
  /\ mode = "interactive"
  /\ IF selectedConversation = "undefined"
     THEN \* lines 346-354: selectedConversation = res[2]
          /\ selectedConversation' = prompt.conversation
          /\ pc' = "prompting"
          /\ UNCHANGED <<network, inflight>>
     ELSE \* lines 355-368: await selectedConversation.sendMessage(...res)
          /\ network' = Append(network, Call("selectedConversation.sendMessage", "main", 0,
                                              prompt.body, prompt.attachments))
          /\ inflight' = inflight \cup {Len(network) + 1}
          /\ pc' = "sent"
          /\ UNCHANGED selectedConversation
  /\ UNCHANGED <<parts, mode, prompt, convo, ready, i, j, error, oneshot>>

\* runEveries.length: the function of line 851 declares no parameter
RunEveriesLength == 0

\* lines 369-373: if (res[3]?.length) { res[3]() }, then the loop asks for
\* the next question
MainRunEveries ==
  /\ pc = "sent"
  /\ Resumed(inflight)
  /\ IF RunEveriesLength # 0
     THEN pc' = "drain" /\ j' = 1
     ELSE pc' = "prompting" /\ UNCHANGED j
  /\ UNCHANGED <<parts, mode, selectedConversation, prompt, convo, ready, i, network, inflight, error, oneshot>>

Next == Template \/ RunPrompt \/ RunEveries \/ Followups \/ Done \/ Finish \/ MainLoop \/ MainRunEveries

Spec == Init /\ [][Next]_vars

(***************************************************************************)
(* Properties                                                              *)
(***************************************************************************)
Range(s) == {s[k] : k \in 1..Len(s)}

IsPrefix(a, b) == Len(a) <= Len(b) /\ SubSeq(b, 1, Len(a)) = a

Concat(ss) ==
  LET F[k \in 0..Len(ss)] == IF k = 0 THEN <<>> ELSE F[k-1] \o ss[k]
  IN F[Len(ss)]

\* the sends among the calls: who sent what
SendIndexes == {n \in 1..Len(network) : IsSend(network[n])}
FollowupSends == {n \in 1..Len(network) : network[n].kind = "followup"}
\* the calls of the run of the template (main's own send on the selected
\* conversation is not among them)
RunCalls == SelectSeq(network, LAMBDA c : c.kind # "main")
Sent == [n \in 1..Len(RunCalls) |-> <<RunCalls[n].kind, RunCalls[n].body>>]

\* the template has been evaluated and runPrompt entered
InRunPrompt == pc = "runPrompt" \/ j >= 1

\* the body of a block directive, read off the directive's text
BodyOfBlock(name) == SubSeq(Frag(name), 2, Len(Frag(name)) - 1)

\* the followup blocks of a template, in document order
FollowupBlocks(ps) ==
  Concat([k \in 1..Len(ps) |->
            IF ps[k] \in {"fa", "fb", "frx", "ff", "fe", "fw", "fun"} THEN <<BodyOfBlock(ps[k])>>
            ELSE IF ps[k] = "bf" THEN <<<<TText("fn")>>>>
            ELSE IF ps[k] = "impl" THEN <<<<TInline("import", "", <<TText("L.txt")>>)>>>>
            ELSE <<>>])

IsPlainText(toks) == \A k \in 1..Len(toks) : toks[k].k = "text" /\ ~IsWs(toks[k])

FollowupsInOrder ==
  /\ (pc = "runPrompt" /\ "fin" \notin Range(parts))
       => [k \in 1..Len(prompt.followup) |-> prompt.followup[k].body] = FollowupBlocks(parts)
  /\ \A m, n \in FollowupSends : m < n => network[m].idx < network[n].idx
  /\ \A n \in FollowupSends :
        /\ network[n].idx <= i
        /\ IsPlainText(prompt.followup[network[n].idx].body)
             => network[n].body = Canon(Render(prompt.followup[network[n].idx].body))

\* C1: the followup queue that getPrompt returns holds the followup blocks in
\* document order, the followups are sent in the order of the queue, and
\* the queue only grows at its end while it is consumed.
C1_FollowupsFIFO ==
  [][IsPrefix(prompt.followup, prompt'.followup) /\ FollowupsInOrder']_vars

\* followup a then followup b in the template, a sent and then b sent
C1_Witness ==
  \E m, n \in FollowupSends :
    /\ m < n
    /\ network[m].body = <<"fa">> /\ network[n].body = <<"fb">>
    /\ \E k \in 1..Len(parts)-1 : parts[k] = "fa" /\ parts[k+1] = "fb"

\* the runs whose template has text, every blocks and followup blocks only
QueueRun == Range(parts) \subseteq QueueFragNames /\ "a" \in Range(parts)

PlainBody(name) == Canon(Render(BodyOfBlock(name)))

\* the bodies of every directives of the template, in order
EveryBodies(ps, names) ==
  Concat([k \in 1..Len(ps) |-> IF ps[k] \in names THEN <<<<"every", PlainBody(ps[k])>>>> ELSE <<>>])

\* B, e1..en, f1, e1..en, ..., fm, e1..en
ExpectedSends(ps, everyNames) ==
  <<<<"initial", prompt.body>>>> \o EveryBodies(ps, everyNames)
  \o Concat([k \in 1..Len(ps) |->
               IF ps[k] \in {"fa", "fb"}
               THEN <<<<"followup", PlainBody(ps[k])>>>> \o EveryBodies(ps, everyNames)
               ELSE <<>>])

RunOver == pc \in {"returned", "done", "sent", "prompting"}

C3_OneRoundTrip ==
  [][/\ Cardinality(inflight') <= 1
     /\ Len(network') > Len(network) => inflight = {}
     /\ inflight' = {n \in 1..Len(network') : network'[n].delivered = "pending"}]_vars

\* a later send of the run is in flight, the ones before it have completed
C3_Witness ==
  /\ Cardinality(inflight) = 1
  /\ Len(network) >= 3
  /\ \E n \in inflight : network[n].kind = "followup"

\* the calls that runPrompt has made (the others are the one-shot exchanges
\* of claude commands, made while the template was evaluated)
OrchestratorCalls == {n \in 1..Len(network) : network[n].kind \notin {"claude", "main"}}

\* C4: a run whose body is empty or whitespace and whose queues are empty
\* has the orchestrator make no call to the backend, and runs to its end.
C4_NoCallForEmptyBody ==
  (InRunPrompt /\ IsBlank(prompt.body) /\ prompt.followup = <<>> /\ prompt.every = <<>>)
    => /\ OrchestratorCalls = {}
       /\ inflight = {}
       /\ pc \in {"runPrompt", "everies", "followups", "returned", "done"}

\* such a run has ended
C4_Witness ==
  /\ pc = "done"
  /\ IsBlank(prompt.body) /\ prompt.followup = <<>> /\ prompt.every = <<>>
  /\ network = <<>>
  /\ parts # <<>>

HasMismatch == "mis" \in Range(parts) \/ "misp" \in Range(parts)

\* C5: a block whose closing name differs from its opening name makes the
\* block pass fail with its structural error, and no other template does.
C5_MismatchedBlockFails ==
  /\ (pc # "template" /\ HasMismatch) => (pc = "threw" /\ error = "Unexpected command end")
  /\ error = "Unexpected command end" => HasMismatch

\* the scope in which every name that is not set holds the empty string
EmptyStringScope ==
  [n \in ScopeNames |-> IF InitialScope(Message)[n] = Undefined THEN Str(<<>>) ELSE InitialScope(Message)[n]]

\* C6: a read of a name that the scope does not hold adds the empty string
\* to the body: the body is the one that the template has when the name
\* holds the empty string.
C6_AbsentReadIsEmpty ==
  InRunPrompt => prompt.body = getPrompt(TemplateOf(parts), EmptyStringScope).body

\* the values that the template's own directives write to x, in order
WritesOfX(ps) ==
  Concat([k \in 1..Len(ps) |->
            CASE ps[k] = "wx1" -> <<"1">>
              [] ps[k] = "wx2" -> <<"2">>
              [] ps[k] = "bw"  -> <<"3">>
              [] OTHER -> <<>>])

Last(s) == s[Len(s)]

\* the runs whose template writes x and defers reads of x
DeferRun == Range(parts) \subseteq DeferFragNames /\ WritesOfX(parts) # <<>>

\* C7: a followup or every directive, block or inline, queues its raw body,
\* and a read of x in it gives the value x has when the queue is drained:
\* the last value the template wrote, also when the write follows the directive.
C7_DeferredReadAtDrain ==
  DeferRun =>
    /\ pc = "runPrompt" => \A k \in 1..Len(prompt.followup) :
                              prompt.followup[k].body = <<TText("f"), TRead("x")>>
    /\ \A n \in 1..Len(network) :
         /\ network[n].kind = "followup" => network[n].body = <<"f" \o Last(WritesOfX(parts)), "\n">>
         /\ network[n].kind = "every" => network[n].body = <<"e" \o Last(WritesOfX(parts)), "\n">>

\* C8: what the evaluation of a block's body produced (attachments, followups,
\* every-items) is in the result of the template.
C8_NestedResultMerged ==
  pc = "runPrompt" =>
    /\ "batt" \in Range(parts) => \E k \in 1..Len(prompt.attachments) :
                                     prompt.attachments[k].extracted_content = <<"c">>
    /\ "bf" \in Range(parts) => \E k \in 1..Len(prompt.followup) :
                                   prompt.followup[k].body = <<TText("fn")>>
    /\ "be" \in Range(parts) => \E k \in 1..Len(prompt.every) :
                                   prompt.every[k].body = <<TText("en")>>

\* C9: /a/A.txt imports ../b/B.txt, which imports C.txt: the file read is
\* /b/C.txt, next to B.txt.
C9_ImportRelativeToImporter ==
  (pc = "runPrompt" /\ "imp" \in Range(parts)) => "cb" \in Range(prompt.body)

\* a read of x (of y) right after the block (the import) that writes it, on a line of its own
ReadsAfterWrite(w, r) ==
  \E k \in 1..Len(parts)-1 :
    /\ parts[k] = w /\ parts[k+1] = r
    /\ k + 2 <= Len(parts) => parts[k+2] \notin {"a", "misp"}

\* no directive of the template is inside a deferred body (the inline
\* followup, when a {/followup} comes after it, opens a followup block)
NoneDeferred == "fin" \notin Range(parts)

\* the template writes x
XWritten == WritesOfX(parts) # <<>> /\ NoneDeferred

\* C10: what a nested block or an imported template writes is in the scope
\* of the outer template: the next directive reads it, the scope the
\* orchestrator is given holds it, and a followup reads it.
C10_ScopeShared ==
  /\ pc = "runPrompt" =>
       /\ XWritten => prompt.variables["x"] = Str(<<Last(WritesOfX(parts))>>)
       /\ ("imp" \in Range(parts) /\ NoneDeferred) => prompt.variables["y"] = Str(<<"7">>)
       /\ (ReadsAfterWrite("bw", "rx") /\ NoneDeferred) => "3" \in Range(prompt.body)
       /\ (ReadsAfterWrite("imp", "ry") /\ NoneDeferred) => "7" \in Range(prompt.body)
  /\ (XWritten /\ Range(parts) \cap {"fw", "ew"} = {}) =>
       \A n \in FollowupSends :
         prompt.followup[network[n].idx].body = BodyOfBlock("frx")
           => network[n].body = <<"f" \o Last(WritesOfX(parts)), "\n">>

\* a block wrote x = 3 and the followup that reads x has been sent with 3
C10_Witness ==
  /\ "bw" \in Range(parts) /\ "frx" \in Range(parts) /\ "fin" \notin Range(parts)
  /\ \E n \in FollowupSends : network[n].body = <<"f3", "\n">>
  /\ prompt.variables["x"] = Str(<<"3">>)

\* what the command of a directive with the bound variable v produces
BoundResult(name) ==
  CASE name = "uv"  -> Str(<<"foo(in)">>)
    [] name = "clv" -> Str(<<"cr">>)
    [] name = "bv"  -> Str(<<"foo(x)">>)
    [] name = "jsv" -> Number("2")

\* C11: after a command whose directive declares the bound variable v, inline
\* or block, claude and unrecognized commands included, the scope holds the
\* command's result (its value, or its body when it has no value) under v.
C11_BoundVariableHoldsResult ==
  \A name \in {"uv", "clv", "bv", "jsv"} :
    (pc = "runPrompt" /\ parts = <<name>>) => prompt.variables["v"] = BoundResult(name)

\* C12: a block directive that declares a bound variable adds no text to the body.
C12_BoundBlockAddsNoText ==
  (pc = "runPrompt" /\ parts = <<"bv">>) => IsBlank(prompt.body)

\* C13: an unrecognized command, block or inline, with or without a quoted
\* input, raises no error and puts command(arg) in the body.
C13_UnknownCommandNeverFails ==
  /\ (parts \in {<<"ui">>, <<"un">>, <<"ok">>, <<"okp">>} /\ pc # "template")
       => (pc # "threw" /\ error = "")
  /\ (parts = <<"ui">> /\ pc = "runPrompt") => "foo(in)" \in Range(prompt.body)
  /\ (parts \in {<<"ok">>, <<"okp">>} /\ pc = "runPrompt") => "foo(x)" \in Range(prompt.body)

\* the round trips that ended with no completion
NoneDelivered == {n \in 1..Len(network) : network[n].delivered = "none"}

\* C14: when a round trip, initial, every or followup, ends with no
\* completion the run stops there: the process is left, and nothing is
\* evaluated or sent afterwards, the failed send included.
C14_NoCompletionStopsRun ==
  /\ [](NoneDelivered # {} => pc = "exited")
  /\ [][pc # "exited"]_vars

\* a followup got no completion while items were left in both queues
C14_Witness ==
  /\ pc = "exited"
  /\ \E n \in NoneDelivered : network[n].kind = "followup" /\ n = Len(network)
  /\ i < Len(prompt.followup)
  /\ prompt.every # <<>>

\* the followups that the loop has still to process when it is at position k
Pending(p, k) == SubSeq(p.followup, k, Len(p.followup))

\* C15: the followup loop comes to its end for every template: no iteration
\* leaves the loop with the followups to process that it had before it (the
\* evaluation of a followup that queues that followup again, directly or
\* through import, is repeated without end).
C15_FollowupLoopProgresses ==
  [][(pc = "followups" /\ ~LoopEnded(i, prompt.followup) /\ pc' \in {"followups", "everies"})
       => Pending(prompt', i + 1) # Pending(prompt, i)]_vars

\* the run was aborted by the error of a block whose tags do not match or of
\* a directive that is malformed
StructuralError ==
  /\ pc = "threw"
  /\ error \in {"Unexpected command end", "TypeError"}
  /\ (HasMismatch \/ "un" \in Range(parts))

\* C16: when a structural error aborts the evaluation of a template, no
\* network call has been made for that run: no claude exchange, no
\* startConversation, no sendMessage.
C16_StructuralErrorBeforeNetwork ==
  StructuralError => network = <<>>

\* the template begins with a js command whose code throws: code that does
\* not parse, or code that throws when it runs
JsThrows == parts # <<>> /\ parts[1] \in {"jss", "jst"}

\* C17: an exception thrown while a js command evaluates its code leaves
\* getPrompt as an error that aborts the run, and nothing is sent to the
\* backend.
C17_JsExceptionPropagates ==
  (JsThrows /\ pc # "template") => (pc = "threw" /\ error # "" /\ network = <<>>)

\* the value that the write directive of the name assigns to x
Written(name) == IF name = "wx1" THEN "1" ELSE "2"

\* C18 as stated: the template {x=1}{x} evaluates to the body "1".
C18_WriteThenReadIsValue ==
  \A w \in {"wx1", "wx2"} :
    (parts = <<w, "rx">> /\ pc = "runPrompt") => prompt.body = <<Written(w)>>

\* C18: the template {x=1}{x} evaluates to the body "\n1\n": the write adds no
\* text and the read adds the written value, and the empty literals around
\* the two directives add newlines that normalization collapses to one on
\* either side of the value.
C18_WriteThenReadBetweenNewlines ==
  \A w \in {"wx1", "wx2"} :
    (parts = <<w, "rx">> /\ pc = "runPrompt") => prompt.body = <<"\n", Written(w), "\n">>

C18_Witness ==
  parts = <<"wx1", "rx">> /\ pc = "runPrompt" /\ prompt.body = <<"\n", "1", "\n">>

\* the value that the scope holds for x when the walk is at position k of
\* the template: that of the latest write before k, if there is one
WrittenBefore(ps, k) == WritesOfX(SubSeq(ps, 1, k - 1))

\* the positions of the reads of x in the template
ReadsOfX(ps) == {k \in 1..Len(ps) : ps[k] = "rx"}

\* what the body holds apart from newlines: one atom for each read
ReadTexts(body) == SelectSeq(body, LAMBDA a : a # "\n")

\* the runs whose template writes and reads x in the template itself
ScopeRun == Range(parts) \subseteq ScopeFragNames /\ pc = "runPrompt"

\* C19: a read adds the value that the scope holds when the walk reaches it:
\* the value of the latest write before it, and never the value of a write
\* that comes after it.
C19_ReadAtItsPoint ==
  ScopeRun =>
    /\ Len(ReadTexts(prompt.body)) = Cardinality(ReadsOfX(parts))
    /\ \A k \in ReadsOfX(parts) :
         LET text == ReadTexts(prompt.body)[Cardinality({r \in ReadsOfX(parts) : r <= k})]
         IN IF WrittenBefore(parts, k) # <<>>
            THEN text = Last(WrittenBefore(parts, k))
            ELSE text \notin {"1", "2"}

\* x was written, read, and written again with another value: the body holds
\* the first value and the scope the second
C19_Witness ==
  /\ parts = <<"wx1", "rx", "wx2">> /\ pc = "runPrompt"
  /\ ReadTexts(prompt.body) = <<"1">>
  /\ prompt.variables["x"] = Str(<<"2">>)

\* the value that the command of the directive produces, or its body when
\* it produces none
Produced(name) ==
  CASE name = "js2" -> Number("2")
    [] name = "js0" -> Number("0")
    [] name = "jsf" -> Boolean("false")
    [] name = "jse" -> Str(<<>>)
    [] name = "ui"  -> Str(<<"foo(in)">>)

\* C20: after a command is dispatched, response and result both hold the
\* value that the command produced, or its body when it produced no value,
\* whatever the value: 0, false and the empty string included.
C20_ResponseIsProducedValue ==
  \A name \in {"js2", "js0", "jsf", "jse", "ui"} :
    (parts = <<name>> /\ pc = "runPrompt") =>
      /\ prompt.variables["response"] = Produced(name)
      /\ prompt.variables["result"] = Produced(name)

\* the runs whose template has text, then every blocks, followups and
\* followups that queue an every-item
GrowRun == parts \in {<<"a">> \o s : s \in SeqsUpTo(GrowFragNames, MaxGrowParts)}

\* the every-items that followups up to position k of the template have queued
QueuedBy(ps, k) ==
  Concat([m \in 1..k |-> IF ps[m] = "fe" THEN <<<<"every", <<"ee">>>>>> ELSE <<>>])

\* what a followup of the template sends
FollowupText(name) == IF name = "fe" THEN <<"fe", "\n">> ELSE <<"fa">>

\* B, the every-items of the template, and for each followup: the followup,
\* the every-items of the template, the every-items queued up to that followup
ExpectedGrowingSends(ps) ==
  <<<<"initial", prompt.body>>>> \o EveryBodies(ps, {"ea"})
  \o Concat([k \in 1..Len(ps) |->
               IF ps[k] \in {"fa", "fe"}
               THEN <<<<"followup", FollowupText(ps[k])>>>> \o EveryBodies(ps, {"ea"}) \o QueuedBy(ps, k)
               ELSE <<>>])

\* the every-items in the queue that followups have queued
QueuedEvery == SelectSeq(prompt.every, LAMBDA e : e.body = <<TText("ee")>>)

\* the followups sent that queue an every-item
QueuingSends == {n \in FollowupSends : network[n].body = FollowupText("fe")}

\* C21: an every-item that the evaluation of a followup queues is in the
\* every queue when that followup is sent; it is sent, after the every-items
\* queued before it, in the drain after that followup's response and in the
\* drain after each later followup; a followup is evaluated only when the
\* drain before it is over.
C21_QueuedEveryDrained ==
  (GrowRun /\ InRunPrompt) =>
    /\ Len(QueuedEvery) = Cardinality(QueuingSends)
    /\ IsPrefix(Sent, ExpectedGrowingSends(parts))
    /\ RunOver => Sent = ExpectedGrowingSends(parts)

\* a followup queued an every-item, which was sent after the every-item of
\* the template in the drain of that followup and in that of the next
C21_Witness ==
  /\ parts = <<"a", "ea", "fe", "fa">> /\ RunOver
  /\ [n \in 1..Len(Sent) |-> Sent[n][2]]
       = <<prompt.body, <<"ea">>, <<"fe", "\n">>, <<"ea">>, <<"ee">>, <<"fa">>, <<"ea">>, <<"ee">>>>

\* the sends of the followup item at position k of the queue
SendsOf(k) == {n \in FollowupSends : network[n].idx = k}

\* the body of the item is made of variable writes only: it resolves to
\* newlines
IsWritesOnly(toks) == toks # <<>> /\ \A k \in 1..Len(toks) : toks[k].k = "write"

\* the run is over: it came to its end or an exception ended it
RunEnded == RunOver \/ pc = "threw"

\* C22: a followup item is evaluated and sent at most once in a run, the
\* loop never comes back to an item, and an item whose body resolves to
\* text is sent exactly once; this holds when the queue grows while it is
\* iterated.
C22_FollowupSentOnce ==
  /\ \A n \in FollowupSends : network[n].idx \in 1..i
  /\ \A k \in 1..Len(prompt.followup) :
       /\ Cardinality(SendsOf(k)) <= 1
       /\ IsWritesOnly(prompt.followup[k].body) => SendsOf(k) = {}
       /\ (RunEnded /\ IsPlainText(prompt.followup[k].body)) =>
            \E n \in SendsOf(k) : network[n].body = Canon(Render(prompt.followup[k].body))

\* the result of the code of the js directive
JsResult(name) ==
  CASE name \in {"js2", "jsv", "jsd2"} -> Number("2")
    [] name = "js0" -> Number("0")
    [] name = "jsf" -> Boolean("false")
    [] name = "jse" -> Str(<<>>)

\* C23: js adds nothing to the body, jsdisplay adds the text of the result,
\* and both bind the result of the code to response, result, js_response
\* and the bound variable.
C23_JsBindsItsResult ==
  \A name \in {"js2", "jsv", "jsd2", "js0", "jsf", "jse"} :
    (parts = <<name>> /\ pc = "runPrompt") =>
      /\ IF name = "jsd2" THEN prompt.body = <<"\n", "2", "\n">> ELSE IsBlank(prompt.body)
      /\ prompt.variables["js_response"] = JsResult(name)
      /\ prompt.variables["response"] = JsResult(name)
      /\ prompt.variables["result"] = JsResult(name)
      /\ name = "jsv" => prompt.variables["v"] = JsResult(name)

\* the sends of the top-level body: by runPrompt, on the conversation it
\* opens, and by the interactive loop, on the selected conversation
BodySends == {n \in 1..Len(network) : network[n].kind \in {"initial", "main"}}

\* the run of the template is over: main has ended, or the interactive loop
\* asks for the next question
TurnOver == pc \in {"done", "prompting"}

\* C24: in a run of a template the top-level body is sent once, and when a
\* conversation is selected it is sent on that conversation and no
\* conversation is opened.
C24_BodySentOnce ==
  (TurnOver /\ HasText(prompt.body)) =>
    /\ Cardinality(BodySends) = 1
    /\ selectedConversation = "selected" =>
         \A n \in 1..Len(network) : network[n].op # "startConversation"

\* the sends of the interactive loop on the selected conversation
MainSends == {n \in 1..Len(network) : network[n].kind = "main"}

\* C25: in the interactive loop, when the message has been sent and
\* answered on the selected conversation and the every queue of the run is
\* not empty, the every-items are sent again after it.
C25_EveryDrainedAfterMainSend ==
  (pc = "prompting" /\ MainSends # {} /\ prompt.every # <<>>) =>
    \E n \in MainSends : \E m \in 1..Len(network) : m > n /\ network[m].kind = "every"

\* the evaluation of the item gave a body with text: the item is sent next
Sendable(r) == r.threw = "" /\ HasText(r.body)

\* the followup loop is about to evaluate an item and send it
FollowupDue ==
  /\ pc = "followups" /\ Resumed(inflight) /\ ~LoopEnded(i, prompt.followup)
  /\ Sendable(getPrompt(prompt.followup[i].body, prompt.variables))

\* the drain is about to evaluate an every-item and send it
EveryDue ==
  /\ pc = "everies" /\ Resumed(inflight) /\ ~LoopEnded(j, prompt.every)
  /\ Sendable(getPrompt(prompt.every[j].body, prompt.variables))

\* C26: when an every-item or a followup with text is about to be sent, a
\* conversation has been opened, whether the top-level body is empty or not.
C26_ConversationOpenBeforeSend ==
  (FollowupDue \/ EveryDue) => convo # "undefined"

\* the scope that the evaluation of the template leaves
ScopeAfter(ps) == getPrompt(TemplateOf(ps), InitialScope(Message)).variables

\* C27: a variable read leaves the scope as it was and a variable write
\* changes the written name only: response and result, set by the command
\* before them, keep their values.
C27_ReadAndWriteKeepScope ==
  \A c \in {"ok", "okp"} :
    /\ (parts = <<c, "rx">> /\ pc = "runPrompt") => prompt.variables = ScopeAfter(<<c>>)
    /\ (parts = <<c, "wx1">> /\ pc = "runPrompt")
         => prompt.variables = [ScopeAfter(<<c>>) EXCEPT !["x"] = Str(<<"1">>)]

\* the round trips of the run that have completed
Completed ==
  {n \in 1..Len(network) : /\ network[n].kind \in {"initial", "every", "followup"}
                           /\ network[n].delivered = "completion"}

\* the most recent of them
LastCompleted == CHOOSE n \in Completed : \A m \in Completed : m <= n

\* an every-item or a followup item is about to be evaluated
ItemDue ==
  /\ Resumed(inflight)
  /\ \/ pc = "everies" /\ ~LoopEnded(j, prompt.every)
     \/ pc = "followups" /\ ~LoopEnded(i, prompt.followup)

\* C28: when an every-item or a followup item starts being evaluated,
\* response holds the completion text and claude_response the response
\* object of the most recent completed round trip of the run.
C28_ResponseOfLastRoundTrip ==
  (ItemDue /\ Completed # {}) =>
    /\ prompt.variables["claude_response"] = ResponseObject(Completion(LastCompleted))
    /\ prompt.variables["response"] = Str(Completion(LastCompleted))

====
